---- MODULE Spec2Model ----
(***************************************************************************)
(* SOAP optimizer (src/soap.py): the per-parameter state kept by           *)
(* SOAP.step, the projections into and out of the eigenbases of the        *)
(* Shampoo preconditioner, and the periodic power-iteration + QR refresh.  *)
(*                                                                         *)
(* Tensors hold integers.  The optimizer runs with betas = (0, 0) and the  *)
(* default shampoo_beta = -1, so every lerp_ has weight 1 and is exact;    *)
(* gradients have exactly one non-zero entry, so every covariance matrix   *)
(* state['GG'][i] is diagonal and its eigenvectors are signed unit         *)
(* vectors.  Axes and indices are numbered from 1 (the source counts from  *)
(* 0).                                                                     *)
(***************************************************************************)
EXTENDS Integers, Sequences, FiniteSets, TLC

-----------------------------------------------------------------------------
(* Bounds of the model. *)

\* number of calls of SOAP.step that are explored
MaxCalls == 4
\* largest entry of a tensor put through project and project_back
MaxEntry == 1

VARIABLES
  value,   \* value[p]: the tensor p holds
  p_grad,  \* p_grad[p]: p.grad at the last call of step; p is absent when it is None
  self_state, \* self.state: self_state[p] is p's dict; p is absent until first accessed
  exc,     \* what the last call of step raised, "none" when it returned
  log,     \* what the last call of step did, in order
  hist,    \* hist[p]: how often add_, eigh and qr have run for p so far
  backend, \* the sign the build's eigh and qr give the columns they return
  calls,   \* the number of calls of step so far
  proj     \* a tensor and a list of matrices put through project, project_back

vars == <<value, p_grad, self_state, exc, log, hist, backend, calls, proj>>

-----------------------------------------------------------------------------
(* Integer helpers. *)

RECURSIVE Pow(_, _)
\* Python's b ** n on integers (0 ** 0 = 1)
Pow(b, n) == IF n = 0 THEN 1 ELSE b * Pow(b, n - 1)

\* the square root, exact on the perfect squares the model produces and
\* rounded down elsewhere
ISqrt(v) == CHOOSE r \in 0..v : r * r <= v /\ (r + 1) * (r + 1) > v

RECURSIVE SumOver(_, _)
\* the sum of f over the finite set S
SumOver(S, f) ==
  IF S = {} THEN 0
  ELSE LET x == CHOOSE y \in S : TRUE IN f[x] + SumOver(S \ {x}, f)

RECURSIVE SeqMax(_)
SeqMax(s) == IF s = <<>> THEN 0
             ELSE LET m == SeqMax(Tail(s)) IN IF Head(s) > m THEN Head(s) ELSE m

\* range(n) of the source, as the axes 1..n in increasing order
Range(n) == [i \in 1..n |-> i]

\* the position of x in the sequence s
PosIn(s, x) == CHOOSE i \in 1..Len(s) : s[i] = x

\* the permutations of 1..d, as sequences
Perms(d) == {s \in [1..d -> 1..d] : \A i, j \in 1..d : s[i] = s[j] => i = j}

-----------------------------------------------------------------------------
(* Tensors: a shape and one integer per index tuple. *)

Indices(shape) ==
  {ix \in [1..Len(shape) -> 1..SeqMax(shape)] : \A a \in 1..Len(shape) : ix[a] <= shape[a]}

Tensor(shape, f) == [shape |-> shape, val |-> f]

\* torch.zeros_like(grad) / torch.zeros(d, d)
Zeros(shape) == Tensor(shape, [ix \in Indices(shape) |-> 0])

\* torch.tensordot(a, b, dims=[da, db]): the axes da of a are contracted with
\* the axes db of b; the result has the free axes of a, then those of b.
tensordot(a, b, da, db) ==
  LET ka == Len(a.shape)
      kb == Len(b.shape)
      fa == SelectSeq(Range(ka), LAMBDA x : \A i \in 1..Len(da) : da[i] # x)
      fb == SelectSeq(Range(kb), LAMBDA x : \A i \in 1..Len(db) : db[i] # x)
      shape == [i \in 1..(Len(fa) + Len(fb)) |->
                  IF i <= Len(fa) THEN a.shape[fa[i]] ELSE b.shape[fb[i - Len(fa)]]]
      cshape == [i \in 1..Len(da) |-> a.shape[da[i]]]
      ia(r, c) == [x \in 1..ka |->
                     IF \E i \in 1..Len(da) : da[i] = x
                     THEN c[PosIn(da, x)] ELSE r[PosIn(fa, x)]]
      ib(r, c) == [x \in 1..kb |->
                     IF \E i \in 1..Len(db) : db[i] = x
                     THEN c[PosIn(db, x)] ELSE r[Len(fa) + PosIn(fb, x)]]
  IN Tensor(shape,
       [r \in Indices(shape) |->
          SumOver(Indices(cshape),
                  [c \in Indices(cshape) |-> a.val[ia(r, c)] * b.val[ib(r, c)]])])

\* a @ b on matrices
matmul(a, b) == tensordot(a, b, <<2>>, <<1>>)

\* o.T
transpose(o) ==
  Tensor(<<o.shape[2], o.shape[1]>>,
         [ix \in Indices(<<o.shape[2], o.shape[1]>>) |-> o.val[<<ix[2], ix[1]>>]])

\* torch.diag of a square matrix: its diagonal, as a sequence
diag(m) == [i \in 1..m.shape[1] |-> m.val[<<i, i>>]]

\* t.index_select(axis, idx)
index_select(t, axis, idx) ==
  LET shape == [a \in 1..Len(t.shape) |-> IF a = axis THEN Len(idx) ELSE t.shape[a]]
  IN Tensor(shape,
       [ix \in Indices(shape) |-> t.val[[ix EXCEPT ![axis] = idx[ix[axis]]]]])

\* o[:, idx]
select_columns(o, idx) == index_select(o, 2, idx)

\* torch.flip(Q, [1]): the columns in reverse order
flip_columns(q) == select_columns(q, [j \in 1..q.shape[2] |-> q.shape[2] + 1 - j])

\* a.lerp_(b, weight): a + weight * (b - a)
lerp(a, b, weight) ==
  Tensor(a.shape, [ix \in Indices(a.shape) |-> a.val[ix] + weight * (b.val[ix] - a.val[ix])])

\* t.square()
square(t) == Tensor(t.shape, [ix \in Indices(t.shape) |-> t.val[ix] * t.val[ix]])

\* t := t - alpha * u   (Tensor.add_(u, alpha=-alpha))
add_scaled(t, u, alpha) ==
  Tensor(t.shape, [ix \in Indices(t.shape) |-> t.val[ix] - alpha * u.val[ix]])

-----------------------------------------------------------------------------
(* The linear-algebra backend (torch.linalg), on the matrices of the model. *)

\* the d x d orthonormal matrices with integer entries: signed permutations
Ortho(d) ==
  {Tensor(<<d, d>>, [ix \in Indices(<<d, d>>) |-> IF s[ix[2]] = ix[1] THEN sg[ix[2]] ELSE 0]) :
     s \in Perms(d), sg \in [1..d -> {-1, 1}]}

IsDiagonal(m) == \A ix \in Indices(m.shape) : ix[1] # ix[2] => m.val[ix] = 0

IsUpperTriangular(m) == \A ix \in Indices(m.shape) : ix[1] > ix[2] => m.val[ix] = 0

\* the matrices of Ortho(d) whose non-zero entries all have the sign sgn
Oriented(d, sgn) ==
  {q \in Ortho(d) : \A ix \in Indices(<<d, d>>) : q.val[ix] # 0 => q.val[ix] = sgn}

\* torch.linalg.eigh(m)[1]: the orthonormal matrices whose columns are
\* eigenvectors of m, in ascending order of eigenvalue.  The order among equal
\* eigenvalues is the backend's choice; the sign of the eigenvectors is the
\* build's.
eigh(m) ==
  {q \in Oriented(m.shape[1], backend.eigh) :
     LET e == matmul(matmul(transpose(q), m), q)
     IN IsDiagonal(e) /\ \A i, j \in 1..m.shape[1] : i < j => e.val[<<i, i>>] <= e.val[<<j, j>>]}

\* torch.linalg.qr(a)[0]: the orthonormal factors q with a = q r, r upper
\* triangular; the sign of the columns is the build's.
qr(a) ==
  {q \in Oriented(a.shape[1], backend.qr) : IsUpperTriangular(matmul(transpose(q), a))}

\* torch.argsort(e, descending=True): the index orders that sort e downwards
\* (the sort is not stable, so equal entries come in either order)
argsort_descending(e) ==
  {s \in Perms(Len(e)) : \A i, j \in 1..Len(e) : i < j => e[s[i]] >= e[s[j]]}

-----------------------------------------------------------------------------
(* The optimizer's configuration. *)

\* the parameters of the one parameter group, in the order of group["params"]
Params == <<"p1", "p2">>
ParamSet == {Params[i] : i \in 1..Len(Params)}

\* the shape of each parameter tensor
ParamShape(p) == IF p = "p1" THEN <<1, 2>> ELSE <<1>>

\* SOAP.__init__ arguments: lr, betas = (beta1, beta2), shampoo_beta,
\* precondition_frequency; EpsInv is 1 / eps for eps = 1e-8
lr == 1
beta1 == 0
beta2 == 0
shampoo_beta == -1
precondition_frequency == 2
EpsInv == 100000000

\* the non-zero entry of a gradient
GradEntries == {2}

\* the values p.grad may hold: tensors of p's shape with one non-zero entry
GradValues(p) ==
  LET sh == ParamShape(p)
  IN {Tensor(sh, [ix \in Indices(sh) |-> IF ix = at THEN v ELSE 0]) :
        at \in Indices(sh), v \in GradEntries}

-----------------------------------------------------------------------------
(* Python values: None or a list, and the outcome of a call that may raise. *)

None == [isNone |-> TRUE, mats |-> <<>>]
List(ms) == [isNone |-> FALSE, mats |-> ms]

\* one entry of the record of what a call of step did, in order: the
\* operation, the parameter, state['Q'] and state['GG'] as they stand when it
\* runs, and the step counter it uses
Event(op, p, st, n) == [op |-> op, p |-> p, Q |-> st.Q, GG |-> st.GG, n |-> n]

\* the empty dict that self.state[p] creates on first access
EmptyDict == [k \in {} |-> 0]

-----------------------------------------------------------------------------
(* SOAP.project and SOAP.project_back. *)

RECURSIVE project_fold(_, _, _)
\* for mat in state['Q']: grad = torch.tensordot(grad, mat, dims=[[0], [0]])
project_fold(grad, mats, i) ==
  IF i > Len(mats) THEN grad
  ELSE project_fold(tensordot(grad, mats[i], <<1>>, <<1>>), mats, i + 1)

\* SOAP.project; iterating over state['Q'] = None raises TypeError
project(grad, state) ==
  IF state.Q.isNone THEN [exc |-> "TypeError", t |-> grad]
  ELSE [exc |-> "none", t |-> project_fold(grad, state.Q.mats, 1)]

RECURSIVE project_back_first_index(_, _, _)
\* project_back_fold contracting with the first index of mat, as project does
project_back_first_index(grad, mats, i) ==
  IF i > Len(mats) THEN grad
  ELSE project_back_first_index(tensordot(grad, mats[i], <<1>>, <<1>>), mats, i + 1)

RECURSIVE project_back_fold(_, _, _)
\* for mat in state['Q']: grad = torch.tensordot(grad, mat, dims=[[0], [1]])
project_back_fold(grad, mats, i) ==
  IF i > Len(mats) THEN grad
  ELSE project_back_fold(tensordot(grad, mats[i], <<1>>, <<2>>), mats, i + 1)

\* SOAP.project_back
project_back(grad, state) ==
  IF state.Q.isNone THEN [exc |-> "TypeError", t |-> grad]
  ELSE [exc |-> "none", t |-> project_back_fold(grad, state.Q.mats, 1)]

-----------------------------------------------------------------------------
(* The preconditioner: SOAP.init_preconditioner, get_orthogonal_matrix,     *)
(* get_orthogonal_matrix_QR and update_preconditioner.  An operation that  *)
(* calls the backend yields the set of its possible outcomes; the backend  *)
(* may raise (exc = "LinAlgError") instead of returning.                   *)

\* SOAP.init_preconditioner
init_preconditioner(grad, state, pf, sb) ==
  ("GG" :> [i \in 1..Len(grad.shape) |-> Zeros(<<grad.shape[i], grad.shape[i]>>)])
  @@ ("Q" :> None)
  @@ ("precondition_frequency" :> pf)
  @@ ("shampoo_beta" :> sb)
  @@ state

RECURSIVE eigenbases(_, _)
\* the lists final that the loop of get_orthogonal_matrix can build from
\* mat[i..]: eigh of m + 1e-30 * I (the same eigenvectors, in the same order,
\* as those of m), columns flipped to descending order
eigenbases(mat, i) ==
  IF i > Len(mat) THEN {<<>>}
  ELSE {<<flip_columns(q)>> \o rest : q \in eigh(mat[i]), rest \in eigenbases(mat, i + 1)}

RECURSIVE eigenbases_ascending(_, _)
eigenbases_ascending(mat, i) ==
  IF i > Len(mat) THEN {<<>>}
  ELSE {<<q>> \o rest : q \in eigh(mat[i]), rest \in eigenbases_ascending(mat, i + 1)}

\* get_orthogonal_matrix without the flip of line 159
get_orthogonal_matrix_no_flip(mat) ==
  {[exc |-> "none", final |-> f] : f \in eigenbases_ascending(mat, 1)}
  \cup {[exc |-> "LinAlgError", final |-> <<>>]}

\* SOAP.get_orthogonal_matrix
get_orthogonal_matrix(mat) ==
  {[exc |-> "none", final |-> f] : f \in eigenbases(mat, 1)}
  \cup {[exc |-> "LinAlgError", final |-> <<>>]}

\* reorder without line 177: only the columns of o are reordered
reorder_columns_only(exp_avg_sq, o, ind, sort_idx) ==
  [exp_avg_sq |-> exp_avg_sq, o |-> select_columns(o, sort_idx)]

\* lines 177-178: exp_avg_sq and the columns of o reordered by sort_idx
reorder(exp_avg_sq, o, ind, sort_idx) ==
  [exp_avg_sq |-> index_select(exp_avg_sq, ind, sort_idx),
   o |-> select_columns(o, sort_idx)]

RECURSIVE refresh_fold(_, _, _, _)
\* the loop of get_orthogonal_matrix_QR from axis ind on: the pairs
\* (exp_avg_sq, final) it can end with
refresh_fold(state, ind, exp_avg_sq, final) ==
  IF ind > Len(state.GG) THEN {[exp_avg_sq |-> exp_avg_sq, final |-> final]}
  ELSE
    LET m == state.GG[ind]
        o == state.Q.mats[ind]
        est_eig == diag(matmul(matmul(transpose(o), m), o))
    IN UNION {
         LET r == reorder(exp_avg_sq, o, ind, sort_idx)
             power_iter == matmul(m, r.o)
         IN UNION {refresh_fold(state, ind + 1, r.exp_avg_sq, Append(final, Q)) :
                     Q \in qr(power_iter)} :
         sort_idx \in argsort_descending(est_eig)}

\* SOAP.get_orthogonal_matrix_QR: on return state['exp_avg_sq'] is replaced
get_orthogonal_matrix_QR(state) ==
  {[exc |-> "none", state |-> [state EXCEPT !["exp_avg_sq"] = r.exp_avg_sq], final |-> r.final] :
     r \in refresh_fold(state, 1, state.exp_avg_sq, <<>>)}
  \cup {[exc |-> "LinAlgError", state |-> state, final |-> <<>>]}

\* line 130-133: the axes of grad other than idx, contracted
covariance(grad, idx) ==
  LET others == SelectSeq(Range(Len(grad.shape)), LAMBDA a : a # idx)
  IN tensordot(grad, grad, others, others)

\* line 136 without the test state['step'] > 0
refresh_due_at_zero(state) == state.step % state.precondition_frequency = 0

\* line 136: the periodic refresh is due
refresh_due(state) ==
  state.step > 0 /\ state.step % state.precondition_frequency = 0

\* SOAP.update_preconditioner: the outcomes [state, exc, log]
update_preconditioner(grad, state, p) ==
  LET st1 == [state EXCEPT !["GG"] =
                [idx \in 1..Len(grad.shape) |->
                   lerp(state.GG[idx], covariance(grad, idx), 1 - state.shampoo_beta)]]
      built ==
        IF st1.Q.isNone
        THEN {[state |-> IF r.exc = "none" THEN [st1 EXCEPT !["Q"] = List(r.final)] ELSE st1,
               exc |-> r.exc,
               log |-> <<Event("eigh", p, st1, st1.step)>>] :
                r \in get_orthogonal_matrix(st1.GG)}
        ELSE {[state |-> st1, exc |-> "none", log |-> <<>>]}
      refreshed(b) ==
        IF b.exc = "none" /\ refresh_due(b.state)
        THEN {[state |-> IF r.exc = "none" THEN [r.state EXCEPT !["Q"] = List(r.final)] ELSE b.state,
               exc |-> r.exc,
               log |-> Append(b.log, Event("qr", p, b.state, b.state.step))] :
                r \in get_orthogonal_matrix_QR(b.state)}
        ELSE {b}
  IN UNION {refreshed(b) : b \in built}

-----------------------------------------------------------------------------
(* SOAP.step. *)

\* lines 100-101: exp_avg_projected / (exp_avg_sq.sqrt() + eps), entry by
\* entry; in float32 a root of 1 or more absorbs eps = 1e-8
adam_quotient(exp_avg_projected, exp_avg_sq) ==
  Tensor(exp_avg_projected.shape,
    [ix \in Indices(exp_avg_projected.shape) |->
       IF exp_avg_sq.val[ix] = 0 THEN exp_avg_projected.val[ix] * EpsInv
       ELSE exp_avg_projected.val[ix] \div ISqrt(exp_avg_sq.val[ix])])

\* w with p's dict, the exception and the events of one more stretch of code
advance(w, p, st, e, events) ==
  [w EXCEPT !.state = (p :> st) @@ w.state, !.exc = e, !.log = w.log \o events]

count(w, p, events) ==
  [w EXCEPT !.hist[p] =
     [op \in DOMAIN w.hist[p] |->
        w.hist[p][op] + Cardinality({i \in 1..Len(events) : events[i].op = op})]]

\* lines 103-106 in the other order: the preconditioner is updated with the
\* gradient first, and the parameter written if that returns
update_then_write(w, p, g, st, norm_grad, step_size) ==
  {LET e == <<Event("update_preconditioner", p, st, st.step)>> \o o.log
       a == <<Event("add_", p, o.state, o.state.step)>>
   IN IF o.exc # "none" THEN count(advance(w, p, o.state, o.exc, e), p, o.log)
      ELSE count(advance([w EXCEPT !.value[p] = add_scaled(w.value[p], norm_grad, step_size)],
                         p, o.state, o.exc, e \o a),
                 p, o.log \o a) :
     o \in update_preconditioner(g, st, p)}

\* lines 103-106: the parameter is written, then the preconditioner updated
write_then_update(w, p, g, st, norm_grad, step_size) ==
  LET written == [w EXCEPT !.value[p] = add_scaled(w.value[p], norm_grad, step_size)]
  IN {count(advance(written, p, o.state, o.exc,
                    <<Event("add_", p, st, st.step),
                      Event("update_preconditioner", p, st, st.step)>> \o o.log),
            p, <<Event("add_", p, st, st.step)>> \o o.log) :
        o \in update_preconditioner(g, st, p)}

\* bias_step with line 82 moved below lines 94-95
bias_step_before_increment(before, after) == before

\* the step counter the bias corrections of lines 94-95 are computed from:
\* state["step"] after the increment of line 82, not before it
bias_step(before, after) == after

\* lines 76-106: the projected Adam update
projected_step(w, p, g, st) ==
  LET pr == project(g, st)
  IN IF pr.exc # "none"
     THEN {advance(w, p, st, pr.exc, <<Event("project", p, st, st.step)>>)}
     ELSE
       LET grad_projected == pr.t
           st3 == [st EXCEPT !["step"] = @ + 1]
           exp_avg == lerp(st3.exp_avg, g, 1 - beta1)
           exp_avg_sq == lerp(st3.exp_avg_sq, square(grad_projected), 1 - beta2)
           st4 == [st3 EXCEPT !["exp_avg"] = exp_avg, !["exp_avg_sq"] = exp_avg_sq]
           exp_avg_projected == project(exp_avg, st4).t
           n == bias_step(st.step, st4.step)
           bias_correction1 == 1 - Pow(beta1, n)
           bias_correction2 == 1 - Pow(beta2, n)
           events == <<Event("project", p, st, st.step),
                       Event("project", p, st4, st4.step),
                       Event("bias_correction", p, st4, n)>>
       IN IF bias_correction1 = 0
          THEN {advance(w, p, st4, "ZeroDivisionError", events)}
          ELSE
            LET step_size == (lr * ISqrt(bias_correction2)) \div bias_correction1
                norm_grad == project_back(adam_quotient(exp_avg_projected, exp_avg_sq), st4).t
            IN write_then_update(
                 [w EXCEPT !.log = w.log \o events
                                   \o <<Event("project_back", p, st4, st4.step)>>],
                 p, g, st4, norm_grad, step_size)

\* first_step without the continue of line 74: the call goes on to the
\* projected update with the eigenbasis it has just built
first_step_falls_through(w, p, g, st) ==
  LET st3 == init_preconditioner(g, st, precondition_frequency,
                                 IF shampoo_beta >= 0 THEN shampoo_beta ELSE beta2)
      inits == {count(advance(w, p, o.state, o.exc,
                        <<Event("update_preconditioner", p, st3, st3.step)>> \o o.log),
                      p, o.log) :
                  o \in update_preconditioner(g, st3, p)}
  IN UNION {IF w2.exc = "none" THEN projected_step(w2, p, g, w2.state[p]) ELSE {w2} :
              w2 \in inits}

\* lines 66-74: no 'Q' in the state yet
first_step(w, p, g, st) ==
  LET st3 == init_preconditioner(g, st, precondition_frequency,
                                 IF shampoo_beta >= 0 THEN shampoo_beta ELSE beta2)
  IN {count(advance(w, p, o.state, o.exc,
                    <<Event("update_preconditioner", p, st3, st3.step)>> \o o.log),
            p, o.log) :
        o \in update_preconditioner(g, st3, p)}

\* lines 52-106: one parameter whose gradient g is present
step_param(w, p, g) ==
  LET st0 == IF p \in DOMAIN w.state THEN w.state[p] ELSE EmptyDict
      st1 == IF "step" \notin DOMAIN st0 THEN ("step" :> 0) @@ st0 ELSE st0
      st2 == IF "exp_avg" \notin DOMAIN st1
             THEN ("exp_avg" :> Zeros(g.shape)) @@ ("exp_avg_sq" :> Zeros(g.shape)) @@ st1
             ELSE st1
  IN IF "Q" \notin DOMAIN st2 THEN first_step(w, p, g, st2)
     ELSE projected_step(w, p, g, st2)

RECURSIVE step_loop_touches_state(_, _, _)
\* step_loop with self.state[p] read before the test of p.grad: the
\* defaultdict then makes an empty dict for a parameter without gradient
step_loop_touches_state(w, g, i) ==
  IF i > Len(Params) \/ w.exc # "none" THEN {w}
  ELSE IF Params[i] \notin DOMAIN g
       THEN step_loop_touches_state(
              [w EXCEPT !.state = w.state @@ (Params[i] :> EmptyDict)], g, i + 1)
  ELSE UNION {step_loop_touches_state(w2, g, i + 1) :
                w2 \in step_param(w, Params[i], g[Params[i]])}

RECURSIVE step_loop(_, _, _)
\* lines 49-51: the parameters from the i-th on, in order; one whose grad is
\* None is passed over, and an exception ends the call
step_loop(w, g, i) ==
  IF i > Len(Params) \/ w.exc # "none" THEN {w}
  ELSE IF Params[i] \notin DOMAIN g THEN step_loop(w, g, i + 1)
  ELSE UNION {step_loop(w2, g, i + 1) : w2 \in step_param(w, Params[i], g[Params[i]])}

\* the gradients a call may find attached: any parameter's may be None
GradAssignments ==
  UNION {[ps -> UNION {GradValues(p) : p \in ps}] : ps \in SUBSET ParamSet}

\* SOAP.step, called with gradients g attached to the parameters
step ==
  /\ calls < MaxCalls
  /\ \E g \in GradAssignments :
       /\ \A p \in DOMAIN g : g[p] \in GradValues(p)
       /\ \E w \in step_loop([value |-> value, state |-> self_state, exc |-> "none",
                              log |-> <<>>, hist |-> hist], g, 1) :
            /\ value' = w.value
            /\ self_state' = w.state
            /\ exc' = w.exc
            /\ log' = w.log
            /\ hist' = w.hist
            /\ p_grad' = g
  /\ calls' = calls + 1
  /\ UNCHANGED <<backend, proj>>

\* the optimizer as constructed: no state, no call made yet
Init ==
  /\ value = [p \in ParamSet |-> Zeros(ParamShape(p))]
  /\ p_grad = EmptyDict
  /\ self_state = EmptyDict
  /\ exc = "none"
  /\ log = <<>>
  /\ hist = [p \in ParamSet |-> [add_ |-> 0, eigh |-> 0, qr |-> 0]]
  /\ backend \in [eigh : {-1, 1}, qr : {-1, 1}]
  /\ calls = 0
  /\ proj = [stage |-> "idle", T |-> Zeros(<<>>), Q |-> <<>>, out |-> Zeros(<<>>)]

Next == step

Spec == Init /\ [][Next]_vars

-----------------------------------------------------------------------------
(* What the last call did to a parameter, read off the log. *)

\* the call got to p (p.grad was present and no earlier parameter raised)
Reached(p) == \E i \in 1..Len(log) : log[i].p = p

\* the call raised while it was working on p
RaisedAt(p) == exc # "none" /\ Len(log) > 0 /\ log[Len(log)].p = p

\* the call worked through p and went on
Completed(p) == Reached(p) /\ ~RaisedAt(p)

\* the call did op on p
Did(op, p) == \E i \in 1..Len(log) : log[i].p = p /\ log[i].op = op

HasState(p) == p \in DOMAIN self_state

-----------------------------------------------------------------------------
(* C1: for a parameter without state, the first call of step that finds   *)
(* its gradient only initializes the state: step is 0, exp_avg and         *)
(* exp_avg_sq are zero tensors when the call ends, and the parameter's     *)
(* values are unchanged.                                                   *)
C1_FirstCallOnlyInitializes ==
  [][\A p \in ParamSet :
       ~HasState(p) =>
         /\ value'[p] = value[p]
         /\ hist'[p].add_ = hist[p].add_
         /\ Reached(p)' =>
              /\ HasState(p)'
              /\ self_state'[p].step = 0
              /\ self_state'[p].exp_avg = Zeros(ParamShape(p))
              /\ self_state'[p].exp_avg_sq = Zeros(ParamShape(p))
              /\ ~Did("add_", p)'
              /\ ~Did("project", p)']_vars

C1_Witness ==
  /\ calls = 1 /\ exc = "none"
  /\ \A p \in ParamSet : Completed(p) /\ self_state[p].step = 0 /\ ~self_state[p].Q.isNone

(* C2: a parameter whose gradient is None is passed over: its values, its  *)
(* state (and whether it has one) are the same after the call as before,   *)
(* and nothing is raised on its account, while the parameters that have a  *)
(* gradient are updated by the same call.                                  *)
C2_AbsentGradientSkipped ==
  [][\A p \in ParamSet :
       p \notin DOMAIN p_grad' =>
         /\ value'[p] = value[p]
         /\ HasState(p)' <=> HasState(p)
         /\ HasState(p) => self_state'[p] = self_state[p]
         /\ hist'[p] = hist[p]
         /\ ~Reached(p)']_vars

C2_Witness ==
  /\ "p2" \notin DOMAIN p_grad /\ HasState("p2") /\ ~Reached("p2")
  /\ "p1" \in DOMAIN p_grad /\ Did("add_", "p1") /\ self_state["p1"].step = 2
  /\ exc = "none"

-----------------------------------------------------------------------------
(* What a call that finds gradient g writes to a parameter in state st,    *)
(* computed from the state as it is before the call.                       *)

expected_norm_grad(st, g) ==
  LET grad_projected == project(g, st).t
      exp_avg == lerp(st.exp_avg, g, 1 - beta1)
      exp_avg_sq == lerp(st.exp_avg_sq, square(grad_projected), 1 - beta2)
  IN project_back(adam_quotient(project(exp_avg, st).t, exp_avg_sq), st).t

expected_step_size(st) ==
  (lr * ISqrt(1 - Pow(beta2, st.step + 1))) \div (1 - Pow(beta1, st.step + 1))

\* the position of the first event op on p in the log, 0 when there is none
FirstAt(op, p) ==
  IF Did(op, p)
  THEN CHOOSE i \in 1..Len(log) :
         /\ log[i].p = p /\ log[i].op = op
         /\ \A j \in 1..(i - 1) : ~(log[j].p = p /\ log[j].op = op)
  ELSE 0

(* C3: in every call that writes a parameter, the eigenbasis and the       *)
(* covariance matrices in place while the write is computed and made are   *)
(* those from before the call: the covariance update and any eigenbasis    *)
(* refresh with the call's gradient come only after the write.             *)
C3_PreconditionerUpdatedAfterWrite ==
  [][\A p \in ParamSet :
       Did("add_", p)' =>
         /\ HasState(p)
         /\ \A i \in 1..Len(log') :
              (log'[i].p = p /\ log'[i].op \in {"project", "project_back", "add_"}) =>
                /\ log'[i].Q = self_state[p].Q
                /\ log'[i].GG = self_state[p].GG
         /\ FirstAt("add_", p)' < FirstAt("update_preconditioner", p)'
         /\ Did("qr", p)' => FirstAt("add_", p)' < FirstAt("qr", p)'
         /\ value'[p] = add_scaled(value[p],
                                   expected_norm_grad(self_state[p], p_grad'[p]),
                                   expected_step_size(self_state[p]))
         /\ \A idx \in 1..Len(ParamShape(p)) :
              self_state'[p].GG[idx] =
                lerp(self_state[p].GG[idx], covariance(p_grad'[p], idx),
                     1 - self_state[p].shampoo_beta)]_vars

\* a call wrote p1 and then refreshed its eigenbasis to a different one
C3_Witness ==
  /\ exc = "none" /\ Did("add_", "p1") /\ Did("qr", "p1")
  /\ self_state["p1"].Q # log[FirstAt("add_", "p1")].Q
  /\ self_state["p1"].GG # log[FirstAt("add_", "p1")].GG

(* C4, as claimed: the first call that finds a gradient for a parameter    *)
(* leaves the eigenbasis unset when it returns.                            *)
C4_Original_NoEigenbasisAfterFirstCall ==
  [][\A p \in ParamSet :
       (~HasState(p) /\ Completed(p)') => self_state'[p].Q.isNone]_vars

(* C4, amended: the first call that finds a gradient for a parameter       *)
(* creates zero moments and the covariance matrices, folds the gradient    *)
(* into them and, in the same call, builds the eigenbasis from them by     *)
(* eigendecomposition (columns in descending order of eigenvalue), without *)
(* writing the parameter; the next call that gets to the parameter builds  *)
(* nothing and makes the projected update.                                 *)
C4_EigenbasisBuiltInFirstCall ==
  [][\A p \in ParamSet :
       /\ (~HasState(p) /\ Reached(p)') =>
            /\ HasState(p)'
            /\ self_state'[p].exp_avg = Zeros(ParamShape(p))
            /\ self_state'[p].exp_avg_sq = Zeros(ParamShape(p))
            /\ \A idx \in 1..Len(ParamShape(p)) :
                 self_state'[p].GG[idx] =
                   lerp(Zeros(<<ParamShape(p)[idx], ParamShape(p)[idx]>>),
                        covariance(p_grad'[p], idx), 1 - self_state'[p].shampoo_beta)
            /\ value'[p] = value[p]
            /\ Did("eigh", p)'
            /\ Completed(p)' =>
                 /\ ~self_state'[p].Q.isNone
                 /\ Len(self_state'[p].Q.mats) = Len(ParamShape(p))
                 /\ \A idx \in 1..Len(ParamShape(p)) :
                      \E q \in eigh(self_state'[p].GG[idx]) :
                        self_state'[p].Q.mats[idx] = flip_columns(q)
       /\ (HasState(p) /\ Reached(p)' /\ ~self_state[p].Q.isNone) =>
            /\ ~Did("eigh", p)'
            /\ Did("add_", p)'
            /\ self_state'[p].step = self_state[p].step + 1]_vars

\* the first call has returned with an eigenbasis whose columns are not in
\* ascending order of eigenvalue
C4_Witness ==
  /\ calls = 1 /\ exc = "none" /\ Completed("p1")
  /\ self_state["p1"].step = 0
  /\ ~self_state["p1"].Q.isNone
  /\ self_state["p1"].Q.mats[2] \notin eigh(self_state["p1"].GG[2])

(* C5: once a parameter has state, its step counter goes up by exactly 1   *)
(* in every call that works through the parameter (and in every call that  *)
(* gets to it with an eigenbasis in place, even if the refresh then        *)
(* raises), and never changes otherwise: it never decreases and never      *)
(* skips a value.  It equals the number of writes made to the parameter,   *)
(* and it is at least 1 whenever the bias corrections are computed.        *)
C5_StepCounter ==
  [][\A p \in ParamSet :
       /\ HasState(p)' => /\ self_state'[p].step >= 0
                          /\ hist'[p].add_ = self_state'[p].step
       /\ ~HasState(p)' => hist'[p].add_ = 0
       /\ HasState(p) =>
            /\ HasState(p)'
            /\ self_state'[p].step \in {self_state[p].step, self_state[p].step + 1}
            /\ Completed(p)' => self_state'[p].step = self_state[p].step + 1
            /\ (Reached(p)' /\ ~self_state[p].Q.isNone) =>
                 self_state'[p].step = self_state[p].step + 1
            /\ Did("add_", p)' <=> self_state'[p].step = self_state[p].step + 1
            /\ hist'[p].add_ - hist[p].add_ = self_state'[p].step - self_state[p].step
       /\ \A i \in 1..Len(log') :
            (log'[i].p = p /\ log'[i].op = "bias_correction") =>
              /\ log'[i].n >= 1
              /\ log'[i].n = self_state'[p].step]_vars

C5_Witness ==
  /\ calls = 4 /\ exc = "none" /\ HasState("p1") /\ HasState("p2")
  /\ self_state["p1"].step = 3 /\ hist["p1"].add_ = 3 /\ Did("bias_correction", "p1")
  /\ self_state["p2"].step = 1 /\ hist["p2"].add_ = 1

(* C6: the eigenbasis of a parameter changes only in two ways.  The full   *)
(* eigendecomposition runs once, in the parameter's first call, and sets    *)
(* it.  The power-iteration + QR refresh runs in exactly the later calls   *)
(* whose step counter, after the increment, is positive and divisible by   *)
(* precondition_frequency, and replaces it.  In every other call it stays  *)
(* as it is.  With precondition_frequency = 2 the refresh has run once     *)
(* when the counter is 3, that is after the parameter's fourth call.       *)
C6_EigenbasisChanges ==
  [][\A p \in ParamSet :
       LET before == IF HasState(p) THEN self_state[p].Q ELSE None
           after == IF HasState(p)' THEN self_state'[p].Q ELSE None
           due == /\ HasState(p)
                  /\ self_state'[p].step = self_state[p].step + 1
                  /\ self_state'[p].step > 0
                  /\ self_state'[p].step % self_state'[p].precondition_frequency = 0
       IN /\ Did("eigh", p)' <=> (~HasState(p) /\ Reached(p)')
          /\ Did("qr", p)' <=> due
          /\ hist'[p].eigh = hist[p].eigh + (IF Did("eigh", p)' THEN 1 ELSE 0)
          /\ hist'[p].qr = hist[p].qr + (IF Did("qr", p)' THEN 1 ELSE 0)
          /\ hist'[p].eigh = (IF HasState(p)' THEN 1 ELSE 0)
          /\ HasState(p)' =>
               hist'[p].qr = self_state'[p].step \div self_state'[p].precondition_frequency
          /\ (HasState(p)' /\ self_state'[p].precondition_frequency = 2
                /\ self_state'[p].step = 3) => hist'[p].qr = 1
          /\ after # before => (Did("eigh", p)' \/ Did("qr", p)')
          /\ (Did("eigh", p)' /\ Completed(p)') => (before.isNone /\ ~after.isNone)
          /\ (Did("qr", p)' /\ Completed(p)') =>
               /\ ~after.isNone
               /\ \A idx \in 1..Len(ParamShape(p)) :
                    \E sort_idx \in argsort_descending(
                         diag(matmul(matmul(transpose(before.mats[idx]),
                                            self_state'[p].GG[idx]), before.mats[idx]))) :
                      after.mats[idx] \in
                        qr(matmul(self_state'[p].GG[idx],
                                  select_columns(before.mats[idx], sort_idx)))]_vars

\* four calls have updated p1; the one refresh, at step 2, is behind it
C6_Witness ==
  /\ calls = 4 /\ exc = "none" /\ HasState("p1")
  /\ self_state["p1"].step = 3 /\ hist["p1"].qr = 1 /\ hist["p1"].eigh = 1
  /\ ~Did("qr", "p1") /\ Did("add_", "p1")

\* t with every axis a reordered by sorts[a]
permute_axes(t, sorts) ==
  Tensor(t.shape,
    [ix \in Indices(t.shape) |-> t.val[[a \in 1..Len(t.shape) |-> sorts[a][ix[a]]]]])

(* C7: in every refresh that returns, there is for each axis i one         *)
(* descending order sort_idx[i] of the estimated eigenvalues               *)
(* diag(Q[i]^T GG[i] Q[i]) such that the stored exp_avg_sq is the          *)
(* exp_avg_sq of before the refresh with every axis i reordered by         *)
(* sort_idx[i], and the new eigenbasis of axis i is the QR factor of GG[i] *)
(* times the old one with its columns reordered by the same sort_idx[i].   *)
C7_PermutationConsistency ==
  [][\A p \in ParamSet :
       (Did("qr", p)' /\ Completed(p)') =>
         LET st == self_state[p]
             k == Len(ParamShape(p))
             GG == self_state'[p].GG
             moment == lerp(st.exp_avg_sq, square(project(p_grad'[p], st).t), 1 - beta2)
             est_eig(i) == diag(matmul(matmul(transpose(st.Q.mats[i]), GG[i]), st.Q.mats[i]))
         IN \E sorts \in [1..k -> UNION {Perms(ParamShape(p)[i]) : i \in 1..k}] :
              /\ \A i \in 1..k : sorts[i] \in argsort_descending(est_eig(i))
              /\ self_state'[p].exp_avg_sq = permute_axes(moment, sorts)
              /\ \A i \in 1..k :
                   self_state'[p].Q.mats[i] \in
                     qr(matmul(GG[i], select_columns(st.Q.mats[i], sorts[i])))]_vars

\* a refresh has returned that reordered the second axis of p1 and with it
\* two different entries of exp_avg_sq
C7_Witness ==
  /\ exc = "none" /\ Did("qr", "p1")
  /\ self_state["p1"].exp_avg_sq.val[<<1, 1>>] # self_state["p1"].exp_avg_sq.val[<<1, 2>>]
  /\ LET was == log[FirstAt("qr", "p1")]
     IN <<1, 2>> \notin
          argsort_descending(diag(matmul(matmul(transpose(was.Q.mats[2]), was.GG[2]),
                                         was.Q.mats[2])))

(* C9: when the QR refresh of a parameter raises, the call of step raises  *)
(* (no later parameter is worked on), and the write the call had already   *)
(* made to the parameter stays.                                            *)
C9_RefreshFailureKeepsWrite ==
  [][\A p \in ParamSet :
       (Did("qr", p)' /\ RaisedAt(p)') =>
         /\ exc' = "LinAlgError"
         /\ Did("add_", p)'
         /\ value'[p] = add_scaled(value[p],
                                   expected_norm_grad(self_state[p], p_grad'[p]),
                                   expected_step_size(self_state[p]))
         /\ self_state'[p].Q = self_state[p].Q
         /\ \A i \in 1..Len(Params) :
              (Params[i] = p) =>
                \A j \in (i + 1)..Len(Params) :
                  /\ ~Reached(Params[j])'
                  /\ value'[Params[j]] = value[Params[j]]]_vars

\* the refresh of p1 raised in a call in which p2 had a gradient too
C9_Witness ==
  /\ exc = "LinAlgError" /\ Did("qr", "p1") /\ RaisedAt("p1") /\ Did("add_", "p1")
  /\ "p2" \in DOMAIN p_grad /\ ~Reached("p2")

(* C10: project and project_back run for a parameter only when its         *)
(* eigenbasis is set; no call takes the projected-update path while        *)
(* state['Q'] is None.                                                     *)
C10_ProjectionNeedsEigenbasis ==
  \A i \in 1..Len(log) :
    log[i].op \in {"project", "project_back"} => ~log[i].Q.isNone

-----------------------------------------------------------------------------
(* SOAP.project and SOAP.project_back as functions: a tensor T and a list  *)
(* Q of orthonormal matrices, one per axis, are drawn; project is applied  *)
(* to T, then project_back to the result.                                  *)

\* the shapes of the tensors drawn
ProjectShapes == {<<2>>, <<1, 2>>, <<2, 1>>, <<2, 2>>, <<2, 1, 2>>}

\* the tensors of a shape with entries in 0..MaxEntry
TensorsOf(shape) == {Tensor(shape, f) : f \in [Indices(shape) -> 0..MaxEntry]}

\* the lists of orthonormal matrices, the i-th of size shape[i]
OrthoLists(shape) ==
  {qs \in [1..Len(shape) -> UNION {Ortho(shape[i]) : i \in 1..Len(shape)}] :
     \A i \in 1..Len(shape) : qs[i].shape = <<shape[i], shape[i]>>}

InitProject ==
  /\ value = [p \in ParamSet |-> Zeros(ParamShape(p))]
  /\ p_grad = EmptyDict
  /\ self_state = EmptyDict
  /\ exc = "none"
  /\ log = <<>>
  /\ hist = [p \in ParamSet |-> [add_ |-> 0, eigh |-> 0, qr |-> 0]]
  /\ backend = [eigh |-> 1, qr |-> 1]
  /\ calls = 0
  /\ \E shape \in ProjectShapes :
       \E T \in TensorsOf(shape), Q \in OrthoLists(shape) :
         proj = [stage |-> "input", T |-> T, Q |-> Q, out |-> T]

\* out = self.project(T, state) with state['Q'] = Q
Project ==
  /\ proj.stage = "input"
  /\ proj' = [proj EXCEPT !.stage = "projected",
                          !.out = project(proj.T, [Q |-> List(proj.Q)]).t]
  /\ UNCHANGED <<value, p_grad, self_state, exc, log, hist, backend, calls>>

\* out = self.project_back(out, state)
ProjectBack ==
  /\ proj.stage = "projected"
  /\ proj' = [proj EXCEPT !.stage = "back",
                          !.out = project_back(proj.out, [Q |-> List(proj.Q)]).t]
  /\ UNCHANGED <<value, p_grad, self_state, exc, log, hist, backend, calls>>

NextProject == Project \/ ProjectBack

SpecProject == InitProject /\ [][NextProject]_vars

RECURSIVE ProductOver(_, _)
\* the product of f[i] over i in 1..n
ProductOver(f, n) == IF n = 0 THEN 1 ELSE f[n] * ProductOver(f, n - 1)

(* C8: for a tensor T and orthonormal matrices Q[i] of the sizes of its    *)
(* axes, project(T) has the shape and the axis order of T, its entry at    *)
(* (j1..jk) being the sum over (a1..ak) of T[a1..ak] * Q1[a1,j1] * ... *   *)
(* Qk[ak,jk]; and project_back(project(T)) is T.                           *)
C8_ProjectionRoundTrip ==
  /\ proj.stage = "projected" =>
       /\ proj.out.shape = proj.T.shape
       /\ \A ix \in Indices(proj.T.shape) :
            proj.out.val[ix] =
              SumOver(Indices(proj.T.shape),
                      [a \in Indices(proj.T.shape) |->
                         proj.T.val[a]
                         * ProductOver([i \in 1..Len(ix) |-> proj.Q[i].val[<<a[i], ix[i]>>]],
                                       Len(ix))])
  /\ proj.stage = "back" => proj.out = proj.T

\* a tensor of three axes has gone through both projections, with a matrix
\* that is not symmetric on its first axis and another on its last
C8_Witness ==
  /\ proj.stage = "back"
  /\ proj.T.shape = <<2, 1, 2>>
  /\ proj.T.val[<<1, 1, 2>>] # proj.T.val[<<2, 1, 1>>]
  /\ proj.Q[1] # transpose(proj.Q[1])
  /\ proj.Q[3] # transpose(proj.Q[3])
  /\ proj.Q[1] # proj.Q[3]

====
